---------------------------- MODULE Spec2Model ----------------------------
(***************************************************************************)
(* A model of the callback bridging layer of src/main.rs: the synchronous  *)
(* closure bridge (CALLBACK_STORE, call_callback_with, trampoline), the    *)
(* one-shot completion bridge (calculate_circle_area_async,                *)
(* async_trampoline), the multi-shot streaming bridge                      *)
(* (calculate_circle_area_async_multi, async_trampoline_multi) and the     *)
(* string bridge (format_circle_info).                                     *)
(*                                                                         *)
(* The foreign library is the environment: it decides how often and with   *)
(* which values it invokes a trampoline, and what its functions return.    *)
(* Floating point values are modelled by integers: the bridge performs no  *)
(* arithmetic of its own, it only moves values.                            *)
(***************************************************************************)
EXTENDS Integers, Sequences, FiniteSets, TLC

(***************************************************************************)
(* Bounds of the model.                                                    *)
(***************************************************************************)
\* Threads that call call_callback_with.
NumThreads == 2
\* Calls of calculate_circle_area_async.
NumOneShots == 2
\* Threads that call format_circle_info.
NumFormatters == 2
\* String handles the foreign library can have allocated at a time.
NumHandles == 2
\* NumberGenerator wrappers.
NumGenerators == 2
\* Calls of calculate_circle_area_async_multi (sessions).
NumMultis == 2
\* Invocations of async_trampoline_multi the foreign side makes in one session at most.
MaxMultiCalls == 3

(***************************************************************************)
(* Program constants.                                                      *)
(***************************************************************************)
\* trampoline's return value when no callback is set (0.0).
Sentinel == 0

\* CALLBACK_COUNT < 3: the callbacks after which async_trampoline_multi says stop.
CallbackLimit == 3

\* unwrap_or(0.0): what calculate_circle_area_async returns for a closed channel.
Fallback == 0

\* The null pointer (and, in a heap, an address that holds nothing).
Null == 0

\* The empty slot: Option::None.
None == "None"

Threads == 1..NumThreads

\* The f64 arguments of the synchronous bridge: negative, zero, positive.
SyncValues == {-2, 3}

\* The closures callers pass: |x| x * x and a second, different one.
Closures == {"square", "succ"}

\* cb(val): the application of a closure.
Apply(f, x) == IF f = "square" THEN x * x ELSE x + 1

VARIABLES
    CALLBACK_STORE, \* the global slot: None or the armed closure
    locked,         \* the thread that holds the slot's mutex, 0 when it is free
    sync,           \* per thread: the call_callback_with call in progress
    strayRet,       \* the values trampoline invocations on an Empty slot returned
    strayStore,     \* the slot right after the last such invocation
    oneshot,        \* per one-shot call: calculate_circle_area_async in progress
    boxAt,          \* the heap of boxed senders: address -> the call whose box is there
    crashed,        \* the calls whose trampoline invocation ended the process
    multi,          \* per session: calculate_circle_area_async_multi and its stream
    CALLBACK_COUNT, \* the static mut counter of async_trampoline_multi
    fmt,            \* per thread: the format_circle_info call in progress
    heap,           \* the foreign library's strings: handle -> bytes, <<>> when free
    gen,            \* per wrapper: the NumberGenerator and the foreign calls made for it
    symbols         \* the generator symbols of the library: looked up yet, and found

syncVars == <<CALLBACK_STORE, locked, sync, strayRet, strayStore>>

oneVars == <<oneshot, boxAt, crashed>>

multiVars == <<multi, CALLBACK_COUNT>>

fmtVars == <<fmt, heap>>

genVars == <<gen, symbols>>

vars == <<syncVars, oneVars, multiVars, fmtVars, genVars>>

\* What the steps of one bridge leave alone.
notSync == <<oneVars, multiVars, fmtVars, genVars>>

notOne == <<syncVars, multiVars, fmtVars, genVars>>

notMulti == <<syncVars, oneVars, fmtVars, genVars>>

notFmt == <<syncVars, oneVars, multiVars, genVars>>

notGen == <<syncVars, oneVars, multiVars, fmtVars>>

(***************************************************************************)
(* The synchronous bridge.                                                 *)
(***************************************************************************)
\* A thread outside call_callback_with. Of a call in progress: the closure and
\* the value passed, how often the trampoline was invoked (zero, one, many),
\* what the last invocation returned, the foreign function's result, and
\* plain: no other call has armed or cleared the slot since this call armed
\* it, and the foreign function has so far invoked the trampoline at most
\* once, with the call's value, and returned that invocation's result.
IdleCall ==
    [pc |-> "idle", closure |-> None, val |-> 0, count |-> "zero", last |-> 0,
     plain |-> FALSE, result |-> 0]

\* Between the arm step and the clear step of call_callback_with.
InCall(t) == sync[t].pc = "armed"

\* No thread is between its arm step and its clear step.
NoCallInProgress == \A t \in Threads : ~InCall(t)

SyncInit ==
    /\ CALLBACK_STORE = None
    /\ locked = 0
    /\ sync = [t \in Threads |-> IdleCall]
    /\ strayRet = {}
    /\ strayStore = None

\* CALLBACK_STORE.lock() in a block or function that ends within the step:
\* the step waits until the mutex is free, and the guard, dropped at the
\* end of the block, leaves it free.
LockedWithin == locked = 0 /\ locked' = 0

trampoline_echo(v) ==
    [ret |-> IF CALLBACK_STORE # None THEN Apply(CALLBACK_STORE, v) ELSE v,
     store |-> CALLBACK_STORE]

trampoline_default(v) ==
    [ret |-> Sentinel, store |-> CALLBACK_STORE]

\* extern "C" fn trampoline: lock the slot, apply the closure found there, or
\* return 0.0 when there is none. The slot is only read.
trampoline(v) ==
    [ret |-> IF CALLBACK_STORE # None THEN Apply(CALLBACK_STORE, v) ELSE Sentinel,
     store |-> CALLBACK_STORE]

\* What an invocation on an Empty slot leaves behind (history).
StrayAfter(v) ==
    IF CALLBACK_STORE = None
    THEN /\ strayRet' = strayRet \cup {trampoline(v).ret}
         /\ strayStore' = trampoline(v).store
    ELSE UNCHANGED <<strayRet, strayStore>>

ArmSlot_holdGuard(t, f, x) ==
    /\ sync[t].pc = "idle"
    /\ locked = 0 /\ locked' = t
    /\ CALLBACK_STORE' = f
    /\ sync' = [u \in Threads |->
                  IF u = t
                  THEN [IdleCall EXCEPT !.pc = "armed", !.closure = f, !.val = x,
                                        !.plain = \A w \in Threads \ {t} : ~InCall(w)]
                  ELSE IF InCall(u) THEN [sync[u] EXCEPT !.plain = FALSE]
                  ELSE sync[u]]
    /\ UNCHANGED <<strayRet, strayStore>>
    /\ UNCHANGED notSync

\* call_callback_with, first block: lock, *store = Some(Box::new(callback)).
ArmSlot(t, f, x) ==
    /\ sync[t].pc = "idle"
    /\ LockedWithin
    /\ CALLBACK_STORE' = f
    /\ sync' = [u \in Threads |->
                  IF u = t
                  THEN [IdleCall EXCEPT !.pc = "armed", !.closure = f, !.val = x,
                                        !.plain = \A w \in Threads \ {t} : ~InCall(w)]
                  ELSE IF InCall(u) THEN [sync[u] EXCEPT !.plain = FALSE]
                  ELSE sync[u]]
    /\ UNCHANGED <<strayRet, strayStore>>
    /\ UNCHANGED notSync

\* The foreign CallCallback, running between arm and clear, invokes the
\* trampoline it was given with a value of its choice.
ForeignInvoke(t, v) ==
    /\ sync[t].pc = "armed"
    /\ LockedWithin
    /\ CALLBACK_STORE' = trampoline(v).store
    /\ sync' = [sync EXCEPT
                  ![t].count = IF @ = "zero" THEN "one" ELSE "many",
                  ![t].last = trampoline(v).ret,
                  ![t].plain = @ /\ sync[t].count = "zero" /\ v = sync[t].val]
    /\ StrayAfter(v)
    /\ UNCHANGED notSync

\* What the foreign CallCallback can return: the result of its last
\* callback, or its argument when it ignores the callback's results.
ForeignResults(t) ==
    {sync[t].val} \cup (IF sync[t].count # "zero" THEN {sync[t].last} ELSE {})

ClearSlot_keep(t, r) ==
    /\ sync[t].pc = "armed"
    /\ LockedWithin
    /\ sync' = [sync EXCEPT
                  ![t].pc = "done",
                  ![t].result = r,
                  ![t].last = 0,
                  ![t].plain = @ /\ sync[t].count = "one" /\ r = sync[t].last]
    /\ UNCHANGED <<CALLBACK_STORE, strayRet, strayStore>>
    /\ UNCHANGED notSync

\* call_callback_with from the foreign function's return on: let result =
\* the value CallCallback returns; lock, *store = None; return result. The
\* foreign function's return touches nothing shared, so it is one step with
\* the clear block that follows it.
ClearSlot(t, r) ==
    /\ sync[t].pc = "armed"
    /\ LockedWithin
    /\ CALLBACK_STORE' = None
    /\ sync' = [u \in Threads |->
                  IF u = t
                  THEN [sync[t] EXCEPT
                          !.pc = "done",
                          !.result = r,
                          !.last = 0,
                          !.plain = @ /\ sync[t].count = "one" /\ r = sync[t].last]
                  ELSE IF InCall(u) THEN [sync[u] EXCEPT !.plain = FALSE]
                  ELSE sync[u]]
    /\ UNCHANGED <<strayRet, strayStore>>
    /\ UNCHANGED notSync

\* The caller has taken the result; the thread may call again.
NextCall(t) ==
    /\ sync[t].pc = "done"
    /\ sync' = [sync EXCEPT ![t] = IdleCall]
    /\ UNCHANGED <<CALLBACK_STORE, locked, strayRet, strayStore>>
    /\ UNCHANGED notSync

\* The foreign side invokes the trampoline outside of any CallCallback it was
\* asked to run (it kept the function pointer).
StrayInvoke(v) ==
    /\ NoCallInProgress
    /\ LockedWithin
    /\ CALLBACK_STORE' = trampoline(v).store
    /\ StrayAfter(v)
    /\ UNCHANGED sync
    /\ UNCHANGED notSync

SyncNext ==
    \/ \E t \in Threads, f \in Closures, x \in SyncValues : ArmSlot(t, f, x)
    \/ \E t \in Threads, v \in SyncValues : ForeignInvoke(t, v)
    \/ \E t \in Threads : \E r \in ForeignResults(t) : ClearSlot(t, r)
    \/ \E t \in Threads : NextCall(t)
    \/ \E v \in SyncValues : StrayInvoke(v)

(***************************************************************************)
(* Properties of the synchronous bridge.                                   *)
(***************************************************************************)
\* C1: once call_callback_with has returned and no other call is in
\* progress, the slot is Empty, however often the foreign function invoked
\* the trampoline during the call.
C1_SlotEmptyAfterCall ==
    NoCallInProgress => CALLBACK_STORE = None

\* A call with many invocations and a call with none have both returned.
C1_Witness ==
    /\ NoCallInProgress
    /\ \E t \in Threads : sync[t].pc = "done" /\ sync[t].count = "many"
    /\ \E t \in Threads : sync[t].pc = "done" /\ sync[t].count = "zero"

\* C2: the slot is a critical section spanning the bridged call: every
\* trampoline invocation of a call's foreign function returns the call's own
\* closure applied to the value, and the slot does not change while the call
\* is between its arm step and its clear step.
C2_SlotIsCriticalSection ==
    [][\A t \in Threads :
          /\ \A v \in SyncValues :
                ForeignInvoke(t, v) => sync'[t].last = Apply(sync[t].closure, v)
          /\ (InCall(t) /\ InCall(t)') => CALLBACK_STORE' = CALLBACK_STORE]_vars

\* C3: a call that no other call overlapped, whose foreign function invoked
\* the trampoline once with the call's value and returned that result,
\* returns the closure applied to the value.
C3_ReturnsClosureResult ==
    \A t \in Threads :
        (sync[t].pc = "done" /\ sync[t].plain)
            => /\ sync[t].count = "one"
               /\ sync[t].result = Apply(sync[t].closure, sync[t].val)

\* Such a call has returned (-2) * (-2).
C3_Witness ==
    \E t \in Threads :
        /\ sync[t].pc = "done" /\ sync[t].plain
        /\ sync[t].closure = "square" /\ sync[t].val = -2 /\ sync[t].result = 4

\* C9: a trampoline invocation that finds the slot Empty returns the sentinel
\* and leaves the slot Empty.
C9_EmptySlotGivesSentinel ==
    strayRet \subseteq {Sentinel} /\ strayStore = None

\* The trampoline has been invoked on an Empty slot.
C9_Witness == strayRet # {} /\ CALLBACK_STORE = None

\* C19: the slot's mutex is never held by a thread that is inside the
\* foreign call, only within the arm step, the clear step and each
\* trampoline invocation; and every call of call_callback_with returns,
\* however many threads call at once, when the foreign function returns
\* after its finitely many callbacks.
C19_EveryCallReturns ==
    /\ [](\A t \in Threads : InCall(t) => locked # t)
    /\ \A t \in Threads : InCall(t) ~> sync[t].pc = "done"

\* A call has returned that ran while the slot was armed or cleared by
\* another call, and that other call, with several callbacks made, is still
\* in its foreign function.
C19_Witness ==
    \E t \in Threads, u \in Threads :
        /\ t # u
        /\ sync[t].pc = "done" /\ ~sync[t].plain /\ sync[t].count # "zero"
        /\ InCall(u) /\ sync[u].count = "many"

(***************************************************************************)
(* The one-shot completion bridge.                                         *)
(***************************************************************************)
OneShots == 1..NumOneShots

\* The heap addresses a Box<oneshot::Sender<f64>> can get: as many as there
\* are calls, so that every call's box can be live at once.
BoxAddrs == 1..NumOneShots

\* The f64 results the foreign side passes to an asynchronous trampoline.
AsyncValues == {0, 7}

\* A call of calculate_circle_area_async not yet made. Of a call: where it is
\* (inforeign: inside the foreign function; awaiting: at receiver.await;
\* resolved; dropped: the future, and with it the receiver, was dropped),
\* user_data (the address of the boxed sender), the token (the box: none,
\* loaned, reclaimed), the value in the channel, the result and how the
\* await ended, and history: how often the trampoline was invoked with this
\* call's user_data (0, 1, or 2 for twice and more), the first value so passed, what the trampoline
\* returned last, and whether the receiver was dropped before the first
\* invocation.
NewOneShot ==
    [pc |-> "new", ptr |-> Null, token |-> "none", value |-> <<>>,
     result |-> 0, outcome |-> "pending", invoked |-> 0, first |-> 0,
     tret |-> "none", early |-> FALSE]

OneInit ==
    /\ oneshot = [s \in OneShots |-> NewOneShot]
    /\ boxAt = [p \in BoxAddrs |-> Null]
    /\ crashed = {}

\* calculate_circle_area_async up to the foreign call: oneshot::channel(),
\* Box::into_raw(Box::new(sender)), then the call with async_trampoline and
\* user_data. The allocator places the box at any address not in use, one
\* that held an earlier call's box included.
CallAsync(s, p) ==
    /\ crashed = {}
    /\ oneshot[s].pc = "new"
    /\ boxAt[p] = Null
    /\ oneshot' = [oneshot EXCEPT
          ![s].pc = "inforeign", ![s].ptr = p, ![s].token = "loaned"]
    /\ boxAt' = [boxAt EXCEPT ![p] = s]
    /\ UNCHANGED crashed
    /\ UNCHANGED notOne

\* The foreign CalculateCircleAreaAsync returns; the caller is at receiver.await.
AsyncForeignReturn(s) ==
    /\ crashed = {}
    /\ oneshot[s].pc = "inforeign"
    /\ oneshot' = [oneshot EXCEPT ![s].pc = "awaiting"]
    /\ UNCHANGED <<boxAt, crashed>>
    /\ UNCHANGED notOne

\* The receiver is gone: the future was dropped, or it has resolved.
ReceiverGone(c) == c.pc \in {"dropped", "resolved"}

\* oneshot::Sender::send: the value is stored for the receiver, or handed
\* back as Err when the receiver is gone. The sender is consumed either way.
SenderSend(c, v) ==
    IF ReceiverGone(c) THEN c ELSE [c EXCEPT !.value = <<v>>]

\* The history of one more invocation with the user_data of call s.
Invoked(calls, s, v, ret) ==
    [calls EXCEPT ![s].invoked = IF @ < 2 THEN @ + 1 ELSE @,
                  ![s].first = IF calls[s].invoked = 0 THEN v ELSE @,
                  ![s].tret = ret]

\* Box::from_raw on an address that holds no box any more: undefined
\* behaviour. The process aborts (a double free, a wild pointer, a panic at
\* the boundary); or nothing observable happens; or the stale sender still
\* reaches the channel of the call it belonged to, and its value replaces
\* the one waiting there.
ReclaimFreed(s, v) ==
    \E ub \in {"abort", "ignored", "overwritten"} :
        /\ ub = "overwritten" => ~ReceiverGone(oneshot[s])
        /\ oneshot' =
              CASE ub = "abort" -> Invoked(oneshot, s, v, oneshot[s].tret)
                [] ub = "ignored" -> Invoked(oneshot, s, v, "false")
                [] ub = "overwritten" ->
                      Invoked([oneshot EXCEPT ![s].value = <<v>>], s, v, "false")
        /\ crashed' = IF ub = "abort" THEN crashed \cup {s} ELSE crashed
        /\ UNCHANGED boxAt

async_trampoline_nosend(s, v) ==
    LET p == oneshot[s].ptr
        o == boxAt[p]
    IN  /\ crashed = {}
        /\ p # Null
        /\ IF o # Null
           THEN /\ oneshot' = Invoked([oneshot EXCEPT ![o].token = "reclaimed"],
                                      s, v, "false")
                /\ boxAt' = [boxAt EXCEPT ![p] = Null]
                /\ UNCHANGED crashed
           ELSE ReclaimFreed(s, v)
        /\ UNCHANGED notOne

async_trampoline_unwrap(s, v) ==
    LET p == oneshot[s].ptr
        o == boxAt[p]
    IN  /\ crashed = {}
        /\ p # Null
        /\ IF o # Null
           THEN /\ oneshot' =
                      Invoked([oneshot EXCEPT
                                  ![o] = [SenderSend(@, v) EXCEPT !.token = "reclaimed"]],
                              s, v,
                              IF ReceiverGone(oneshot[o]) THEN oneshot[s].tret ELSE "false")
                /\ boxAt' = [boxAt EXCEPT ![p] = Null]
                /\ crashed' = IF ReceiverGone(oneshot[o]) THEN crashed \cup {s} ELSE crashed
           ELSE ReclaimFreed(s, v)
        /\ UNCHANGED notOne

\* unsafe extern "C" fn async_trampoline(result, user_data), invoked by the
\* foreign side with the user_data of call s, inside the foreign function or
\* later: Box::from_raw(user_data) takes the box at that address, which is
\* the box of call s unless that was reclaimed before and the address given
\* to another call's box; send the result ignoring a failure, drop the
\* sender, return false.
async_trampoline(s, v) ==
    LET p == oneshot[s].ptr
        o == boxAt[p]
    IN  /\ crashed = {}
        /\ p # Null
        /\ IF o # Null
           THEN /\ oneshot' =
                      Invoked([oneshot EXCEPT
                                  ![o] = [SenderSend(@, v) EXCEPT !.token = "reclaimed"]],
                              s, v, "false")
                /\ boxAt' = [boxAt EXCEPT ![p] = Null]
                /\ UNCHANGED crashed
           ELSE ReclaimFreed(s, v)
        /\ UNCHANGED notOne

Resolve_timeout(s) ==
    /\ crashed = {}
    /\ oneshot[s].pc = "awaiting"
    /\ oneshot' = [oneshot EXCEPT
          ![s].pc = "resolved",
          ![s].outcome = IF oneshot[s].value # <<>> THEN "value" ELSE "fallback",
          ![s].result = IF oneshot[s].value # <<>> THEN oneshot[s].value[1] ELSE Fallback,
          ![s].value = <<>>]
    /\ UNCHANGED <<boxAt, crashed>>
    /\ UNCHANGED notOne

\* receiver.await.unwrap_or(0.0): resolves with the value sent, or with 0.0
\* once the sender is gone without having sent one.
Resolve(s) ==
    /\ crashed = {}
    /\ oneshot[s].pc = "awaiting"
    /\ oneshot[s].value # <<>> \/ oneshot[s].token = "reclaimed"
    /\ oneshot' = [oneshot EXCEPT
          ![s].pc = "resolved",
          ![s].outcome = IF oneshot[s].value # <<>> THEN "value" ELSE "fallback",
          ![s].result = IF oneshot[s].value # <<>> THEN oneshot[s].value[1] ELSE Fallback,
          ![s].value = <<>>]
    /\ UNCHANGED <<boxAt, crashed>>
    /\ UNCHANGED notOne

\* The caller drops the pending future (a timeout, a select), and with it
\* the receiver and whatever value waits in the channel.
DropFuture(s) ==
    /\ crashed = {}
    /\ oneshot[s].pc = "awaiting"
    /\ oneshot' = [oneshot EXCEPT
          ![s].pc = "dropped",
          ![s].value = <<>>,
          ![s].early = (oneshot[s].invoked = 0 /\ oneshot[s].token = "loaned")]
    /\ UNCHANGED <<boxAt, crashed>>
    /\ UNCHANGED notOne

OneNext ==
    \/ \E s \in OneShots, p \in BoxAddrs : CallAsync(s, p)
    \/ \E s \in OneShots : AsyncForeignReturn(s)
    \/ \E s \in OneShots, v \in AsyncValues : async_trampoline(s, v)
    \/ \E s \in OneShots : Resolve(s)
    \/ \E s \in OneShots : DropFuture(s)

(***************************************************************************)
(* Properties of the one-shot bridge.                                      *)
(***************************************************************************)
\* C4: the caller of calculate_circle_area_async observes at most one
\* completion value, the first one the trampoline was given: a value of a
\* second invocation with the same token is not delivered.
C4_OnlyFirstValueDelivered ==
    \A s \in OneShots :
        oneshot[s].pc = "resolved"
            => /\ oneshot[s].outcome = "value"
               /\ oneshot[s].result = oneshot[s].first

\* No token has been passed to the trampoline more than once.
OnceEach == \A s \in OneShots : oneshot[s].invoked <= 1

\* C5: when the foreign side has invoked the trampoline once with the token
\* and a value, and the future is still held, the call resolves with that
\* value (unless the foreign side invokes a trampoline a second time with
\* some token, or the caller drops the future).
C5_ResolvesWithValue ==
    \A s \in OneShots :
        (oneshot[s].invoked = 1 /\ oneshot[s].pc \in {"inforeign", "awaiting"})
            ~> \/ /\ oneshot[s].pc = "resolved"
                  /\ oneshot[s].outcome = "value"
                  /\ oneshot[s].result = oneshot[s].first
               \/ oneshot[s].pc = "dropped"
               \/ ~OnceEach

\* A call has resolved with the 7 of its only invocation, made after the
\* foreign function returned; another with the value of an invocation made
\* inside the foreign function.
C5_Witness ==
    /\ OnceEach
    /\ \E s \in OneShots :
          /\ oneshot[s].pc = "resolved" /\ oneshot[s].invoked = 1
          /\ oneshot[s].result = 7 /\ oneshot[s].first = 7
    /\ \E s \in OneShots :
          oneshot[s].pc = "inforeign" /\ oneshot[s].invoked = 1

\* C8: when the receiver was dropped before the foreign side called back,
\* the one invocation with the call's token that follows ends no process,
\* sends nothing, reconstructs and drops the token, once, and returns false
\* (the foreign side having passed no token to the trampoline twice).
C8_SendToDroppedReceiverIgnored ==
    \A s \in OneShots :
        (oneshot[s].early /\ oneshot[s].invoked = 1 /\ OnceEach)
            => /\ crashed = {}
               /\ oneshot[s].token = "reclaimed"
               /\ boxAt[oneshot[s].ptr] # s
               /\ oneshot[s].tret = "false"
               /\ oneshot[s].value = <<>>
               /\ oneshot[s].outcome = "pending"

\* The trampoline has been invoked once after the receiver was dropped, and
\* no token was passed to it twice.
C8_Witness ==
    OnceEach /\ \E s \in OneShots :
        /\ oneshot[s].pc = "dropped" /\ oneshot[s].early
        /\ oneshot[s].invoked = 1 /\ oneshot[s].tret = "false"

\* C12: every async_trampoline invocation reconstructs a token that has not
\* been reconstructed before: the box of the invocation's own call is still
\* at the address passed, also when the foreign side passes a pointer twice.
C12_TokenReclaimedAtMostOnce ==
    [][\A s \in OneShots, v \in AsyncValues :
          async_trampoline(s, v) => boxAt[oneshot[s].ptr] = s]_vars

(***************************************************************************)
(* The multi-shot streaming bridge.                                        *)
(***************************************************************************)
Multis == 1..NumMultis

\* The result the foreign side passes with its k-th callback of session s:
\* the bridge only moves these values, so each is made recognisable.
MultiValue(s, k) == 10 * s + k

\* A session not yet started. Of a session: where the caller is (inforeign:
\* inside the foreign function; streaming: it holds the receiver), the token
\* (the boxed Arc<Mutex<UnboundedSender>> behind user_data), the channel's
\* queue, what the consumer has received, the receiver (alive, closed: recv
\* returned None, dropped), the trampoline invocation in progress (tpc: idle,
\* loaded, stored) with the counter value it read, what the trampoline has
\* printed, and history: the invocations made, what they returned, and
\* whether the foreign side has stopped calling back.
NewMulti ==
    [pc |-> "new", token |-> "none", queue |-> <<>>, recv |-> <<>>,
     rx |-> "alive", calls |-> 0, tpc |-> "idle", reg |-> 0, rets |-> <<>>,
     stopped |-> FALSE, printed |-> {}]

MultiInit ==
    /\ multi = [s \in Multis |-> NewMulti]
    /\ CALLBACK_COUNT = 0

\* calculate_circle_area_async_multi up to the foreign call:
\* mpsc::unbounded_channel(), Box::into_raw(Box::new(Arc::new(Mutex::new(tx)))),
\* then the call with async_trampoline_multi.
CallAsyncMulti(s) ==
    /\ multi[s].pc = "new"
    /\ multi' = [multi EXCEPT ![s].pc = "inforeign", ![s].token = "loaned"]
    /\ UNCHANGED CALLBACK_COUNT
    /\ UNCHANGED notMulti

\* The foreign CalculateCircleAreaAsyncMultiple returns; the caller gets rx.
MultiForeignReturn(s) ==
    /\ multi[s].pc = "inforeign"
    /\ multi' = [multi EXCEPT ![s].pc = "streaming"]
    /\ UNCHANGED CALLBACK_COUNT
    /\ UNCHANGED notMulti

ChannelSend_lifo(c, v) ==
    IF c.rx = "alive" THEN [c EXCEPT !.queue = <<v>> \o @] ELSE c

\* tx.send(result) and the match on it: the value joins the queue's end, or
\* the send fails when the receiver is gone and the failure is printed.
ChannelSend(c, v) ==
    IF c.rx = "alive"
    THEN [c EXCEPT !.queue = Append(@, v)]
    ELSE [c EXCEPT !.printed = @ \cup {"Failed to send result"}]

\* async_trampoline_multi, invoked by the foreign side with the token of
\* session s, up to its read of CALLBACK_COUNT: borrow the Arc behind
\* user_data, lock, send the result; then load the counter.
TrampolineMultiEnter(s) ==
    /\ multi[s].token = "loaned"
    /\ multi[s].tpc = "idle"
    /\ ~multi[s].stopped
    /\ multi[s].calls < MaxMultiCalls
    /\ multi' = [multi EXCEPT ![s] =
          [ChannelSend(@, MultiValue(s, multi[s].calls + 1)) EXCEPT
              !.calls = @ + 1, !.tpc = "loaded", !.reg = CALLBACK_COUNT]]
    /\ UNCHANGED CALLBACK_COUNT
    /\ UNCHANGED notMulti

\* CALLBACK_COUNT += 1: the store of the unsynchronised read-modify-write
\* (a u32; the callbacks of a run stay far below its range).
TrampolineMultiStore(s) ==
    /\ multi[s].tpc = "loaded"
    /\ CALLBACK_COUNT' = multi[s].reg + 1
    /\ multi' = [multi EXCEPT ![s].tpc = "stored"]
    /\ UNCHANGED notMulti

TrampolineMultiReturn_stopOnDrop(s) ==
    /\ multi[s].tpc = "stored"
    /\ \E c \in {CALLBACK_COUNT, multi[s].reg + 1} :
          multi' = [multi EXCEPT ![s].tpc = "idle",
                                 ![s].reg = 0,
                                 ![s].rets = Append(@, multi[s].rx # "dropped"
                                                        /\ c < CallbackLimit)]
    /\ UNCHANGED CALLBACK_COUNT
    /\ UNCHANGED notMulti

\* let continue_receiving = CALLBACK_COUNT < 3: compared is the counter as
\* it is now in memory, or the value just computed and still in a register.
TrampolineMultiReturn(s) ==
    /\ multi[s].tpc = "stored"
    /\ \E c \in {CALLBACK_COUNT, multi[s].reg + 1} :
          multi' = [multi EXCEPT ![s].tpc = "idle",
                                 ![s].reg = 0,
                                 ![s].rets = Append(@, c < CallbackLimit)]
    /\ UNCHANGED CALLBACK_COUNT
    /\ UNCHANGED notMulti

\* The foreign side, told false, makes no more callbacks in this session.
ForeignStops(s) ==
    /\ multi[s].tpc = "idle"
    /\ ~multi[s].stopped
    /\ multi[s].rets # <<>>
    /\ ~multi[s].rets[Len(multi[s].rets)]
    /\ multi' = [multi EXCEPT ![s].stopped = TRUE]
    /\ UNCHANGED CALLBACK_COUNT
    /\ UNCHANGED notMulti

\* Every sender of the session's channel has been dropped: the only one
\* lives in the token.
SendersGone(c) == c.token = "reclaimed"

\* rx.recv() completes: with the queue's first value, or with None once the
\* queue is empty and every sender is gone. Otherwise it stays pending.
Recv(s) ==
    /\ multi[s].pc = "streaming"
    /\ multi[s].rx = "alive"
    /\ multi[s].queue # <<>> \/ SendersGone(multi[s])
    /\ multi' = [multi EXCEPT ![s] =
          IF multi[s].queue # <<>>
          THEN [@ EXCEPT !.recv = Append(@, Head(multi[s].queue)),
                         !.queue = Tail(@)]
          ELSE [@ EXCEPT !.rx = "closed"]]
    /\ UNCHANGED CALLBACK_COUNT
    /\ UNCHANGED notMulti

\* The caller drops rx (main leaves its loop on the timeout): the queued
\* values go with it, and so does the consumer with what it had received.
DropReceiver(s) ==
    /\ multi[s].pc = "streaming"
    /\ multi[s].rx = "alive"
    /\ multi' = [multi EXCEPT ![s].rx = "dropped", ![s].queue = <<>>, ![s].recv = <<>>]
    /\ UNCHANGED CALLBACK_COUNT
    /\ UNCHANGED notMulti

MultiNext ==
    \/ \E s \in Multis : CallAsyncMulti(s)
    \/ \E s \in Multis : MultiForeignReturn(s)
    \/ \E s \in Multis : TrampolineMultiEnter(s)
    \/ \E s \in Multis : TrampolineMultiStore(s)
    \/ \E s \in Multis : TrampolineMultiReturn(s)
    \/ \E s \in Multis : ForeignStops(s)
    \/ \E s \in Multis : Recv(s)
    \/ \E s \in Multis : DropReceiver(s)

(***************************************************************************)
(* Properties of the multi-shot bridge.                                    *)
(***************************************************************************)
\* The values passed to async_trampoline_multi in session s, in the order
\* of the invocations.
Passed(s) == [k \in 1..multi[s].calls |-> MultiValue(s, k)]

IsPrefix(p, q) == Len(p) <= Len(q) /\ \A i \in 1..Len(p) : p[i] = q[i]

\* C6: what the consumer of a session has received is at every point a
\* prefix of the values passed to the trampoline in that session, in
\* invocation order; while the receiver lives, the received values followed
\* by the queued ones are exactly the values passed.
C6_ReceivedInInvocationOrder ==
    \A s \in Multis :
        /\ IsPrefix(multi[s].recv, Passed(s))
        /\ multi[s].rx = "alive" => multi[s].recv \o multi[s].queue = Passed(s)

\* A consumer has received two values while a third waits in the queue.
C6_Witness ==
    \E s \in Multis :
        /\ multi[s].recv = <<MultiValue(s, 1), MultiValue(s, 2)>>
        /\ multi[s].queue = <<MultiValue(s, 3)>>

\* The foreign side invoked the trampoline three times in session s, was
\* told true, true, false and stopped, and the consumer has received the
\* three values.
Drained(s) ==
    /\ multi[s].stopped
    /\ multi[s].calls = CallbackLimit
    /\ multi[s].rets = <<TRUE, TRUE, FALSE>>
    /\ multi[s].pc = "streaming"
    /\ multi[s].rx # "dropped"
    /\ multi[s].recv = Passed(s)

\* C7: in a session of three callbacks that the foreign side ends on the
\* trampoline's false, the consumer, having received the three values,
\* observes end-of-stream: recv has returned None or can do so, it does not
\* stay pending.
C7_EndOfStreamAfterThree ==
    \A s \in Multis :
        Drained(s) => (multi[s].rx = "closed" \/ ENABLED Recv(s))

\* C13: in every session the trampoline answers true to the session's 1st
\* and 2nd callback and false to its 3rd (and later ones), whatever callbacks
\* other sessions, earlier or concurrent, have had.
C13_AnswerCountsOwnCallbacks ==
    \A s \in Multis :
        \A k \in 1..Len(multi[s].rets) : multi[s].rets[k] = (k < CallbackLimit)

\* The last element of a non-empty sequence.
Last(q) == q[Len(q)]

\* The trampoline has answered false in session s and is not running.
SequenceOver(s) ==
    /\ multi[s].tpc = "idle"
    /\ multi[s].rets # <<>>
    /\ ~Last(multi[s].rets)

\* C14: the token of a session is reclaimed when the sequence is over, after
\* the callback the trampoline answers with false, and not before: it is
\* only borrowed until then.
C14_TokenReclaimedWhenOver ==
    \A s \in Multis :
        /\ multi[s].token = "reclaimed" => SequenceOver(s)
        /\ SequenceOver(s) => multi[s].token = "reclaimed"

\* An invocation of session s was made, and has returned, after the
\* trampoline had answered false in that session.
CalledAfterFalse(s) ==
    \E k \in 2..Len(multi[s].rets) : ~multi[s].rets[k - 1]

\* C15: when the trampoline was invoked for a session after it had answered
\* false there, the value is in the session's channel all the same and the
\* invocation is on record as a protocol violation: of what the trampoline
\* keeps, CALLBACK_COUNT counts every callback alike, so the record is a
\* line it printed other than the one for a failed send.
C15_LateCallbackRecorded ==
    \A s \in Multis :
        CalledAfterFalse(s)
            => /\ multi[s].rx = "alive"
                     => multi[s].recv \o multi[s].queue = Passed(s)
               /\ multi[s].printed \ {"Failed to send result"} # {}

\* C17: once the consumer of a session is dropped, an invocation of the
\* trampoline for the session runs to its end, its send fails, which is
\* printed and nothing else (no value is kept), and its answer is, as with a
\* live consumer, the comparison of the counter with 3.
C17_DroppedConsumerIgnored ==
    /\ [](\A s \in Multis :
            multi[s].rx = "dropped"
                => /\ multi[s].queue = <<>>
                   /\ multi[s].tpc = "loaded" => ENABLED TrampolineMultiStore(s)
                   /\ multi[s].tpc = "stored" => ENABLED TrampolineMultiReturn(s))
    /\ [][\A s \in Multis :
            /\ (multi[s].rx = "dropped" /\ TrampolineMultiEnter(s))
                  => /\ multi'[s].printed = {"Failed to send result"}
                     /\ multi'[s].calls = multi[s].calls + 1
            /\ TrampolineMultiReturn(s)
                  => \/ Last(multi'[s].rets) = (CALLBACK_COUNT < CallbackLimit)
                     \/ Last(multi'[s].rets) = (multi[s].reg + 1 < CallbackLimit)]_vars

\* The first callback of a session came after its consumer was dropped: the
\* failed send was printed, and the trampoline answered true.
C17_Witness ==
    \E s \in Multis :
        /\ multi[s].rx = "dropped"
        /\ multi[s].printed # {}
        /\ multi[s].calls = 1
        /\ multi[s].rets = <<TRUE>>

(***************************************************************************)
(* The string bridge.                                                      *)
(***************************************************************************)
Formatters == 1..NumFormatters

Handles == 1..NumHandles

\* The C strings FormatCircleInfo produces: bytes, some of them not UTF-8.
ForeignStrings == {<<"A">>, <<"A", "xFF">>}

\* to_string_lossy().into_owned(): a copy in which every byte that is not
\* UTF-8 is replaced by U+FFFD.
ToStringLossy(bytes) ==
    [i \in DOMAIN bytes |-> IF bytes[i] = "xFF" THEN "uFFFD" ELSE bytes[i]]

\* A thread outside format_circle_info. Of a call: where it is (called: the
\* foreign function has returned c_ptr; copied; ok, err: it has returned),
\* the pointer, the string copied, and the handles passed to free_string,
\* each with whether the string had been copied by then.
IdleFormat ==
    [pc |-> "idle", ptr |-> Null, result |-> <<>>, frees |-> <<>>]

FmtInit ==
    /\ fmt = [c \in Formatters |-> IdleFormat]
    /\ heap = [h \in Handles |-> <<>>]

\* The pointers FormatCircleInfo can return: null, or a handle not in use.
FreshPointers == {Null} \cup {h \in Handles : heap[h] = <<>>}

\* let c_ptr = (self.format_circle_info)(radius): the foreign function
\* returns null, or a handle to a string it has allocated.
FormatCall(c, p, str) ==
    /\ fmt[c].pc = "idle"
    /\ fmt' = [fmt EXCEPT ![c].pc = "called", ![c].ptr = p]
    /\ heap' = IF p = Null THEN heap ELSE [heap EXCEPT ![p] = str]
    /\ UNCHANGED notFmt

\* if c_ptr.is_null() { return Err(..) }
FormatNull(c) ==
    /\ fmt[c].pc = "called"
    /\ fmt[c].ptr = Null
    /\ fmt' = [fmt EXCEPT ![c].pc = "err"]
    /\ UNCHANGED heap
    /\ UNCHANGED notFmt

\* CStr::from_ptr(c_ptr).to_string_lossy().into_owned()
FormatCopy(c) ==
    /\ fmt[c].pc = "called"
    /\ fmt[c].ptr # Null
    /\ fmt' = [fmt EXCEPT ![c].pc = "copied",
                          ![c].result = ToStringLossy(heap[fmt[c].ptr])]
    /\ UNCHANGED heap
    /\ UNCHANGED notFmt

FormatFree_leak(c) ==
    /\ fmt[c].pc = "copied"
    /\ fmt' = [fmt EXCEPT ![c].pc = "ok"]
    /\ UNCHANGED heap
    /\ UNCHANGED notFmt

\* (self.free_string)(c_ptr); Ok(result): the foreign library releases the
\* handle.
FormatFree(c) ==
    /\ fmt[c].pc = "copied"
    /\ fmt' = [fmt EXCEPT
          ![c].pc = "ok",
          ![c].frees = Append(@, [ptr |-> fmt[c].ptr,
                                  copied |-> fmt[c].result # <<>>])]
    /\ heap' = [heap EXCEPT ![fmt[c].ptr] = <<>>]
    /\ UNCHANGED notFmt

\* The caller has taken the Ok or the Err; the thread may call again.
NextFormat(c) ==
    /\ fmt[c].pc \in {"ok", "err"}
    /\ fmt' = [fmt EXCEPT ![c] = IdleFormat]
    /\ UNCHANGED heap
    /\ UNCHANGED notFmt

FmtNext ==
    \/ \E c \in Formatters, str \in ForeignStrings :
          \E p \in FreshPointers : FormatCall(c, p, str)
    \/ \E c \in Formatters : FormatNull(c)
    \/ \E c \in Formatters : FormatCopy(c)
    \/ \E c \in Formatters : FormatFree(c)
    \/ \E c \in Formatters : NextFormat(c)

(***************************************************************************)
(* Properties of the string bridge.                                        *)
(***************************************************************************)
\* C10: a format_circle_info call that got a null handle returns an error
\* and has not called free_string; a call that got a handle has, when it
\* returns Ok, called free_string once, with that handle, after copying the
\* string, and not before.
C10_FreeStringOnceAfterCopy ==
    \A c \in Formatters :
        /\ fmt[c].pc = "err" => (fmt[c].ptr = Null /\ fmt[c].frees = <<>>)
        /\ fmt[c].pc = "ok"
              => /\ fmt[c].ptr # Null
                 /\ fmt[c].frees = <<[ptr |-> fmt[c].ptr, copied |-> TRUE]>>
        /\ fmt[c].pc \in {"called", "copied"} => fmt[c].frees = <<>>

\* One call has returned an error for a null handle, another has returned
\* Ok with the copy of a string whose handle it has freed.
C10_Witness ==
    /\ \E c \in Formatters : fmt[c].pc = "err" /\ fmt[c].ptr = Null
    /\ \E c \in Formatters :
          /\ fmt[c].pc = "ok"
          /\ fmt[c].result = <<"A", "uFFFD">>
          /\ Len(fmt[c].frees) = 1

(***************************************************************************)
(* The number generator wrapper.                                           *)
(***************************************************************************)
Generators == 1..NumGenerators

\* The i64 ids CreateNumberGenerator hands out.
GenIds == {1, 2}

\* The symbols NumberGenerator looks up by name at each use.
GenSymbols ==
    {"CreateNumberGenerator", "GetNextNumber", "StopNumberGenerator",
     "FreeNumberGenerator"}

\* No wrapper yet. Of a wrapper: whether it is live or dropped, its id, how
\* many GetNextNumber and StopNumberGenerator calls were made with the id
\* (zero, one, many), the ids FreeNumberGenerator was called with, whether
\* a GetNextNumber or StopNumberGenerator call followed a free, and what
\* the last method call returned.
NoGenerator ==
    [pc |-> "none", id |-> 0, nexts |-> "zero", stops |-> "zero",
     frees |-> <<>>, late |-> FALSE, ret |-> "none"]

GenInit ==
    /\ gen = [g \in Generators |-> NoGenerator]
    /\ symbols = [y \in GenSymbols |-> "unknown"]

\* zero, one, many.
Counted(c) == IF c = "zero" THEN "one" ELSE "many"

\* lib.get(name): the library exports the symbol or it does not, the same at
\* every lookup.
Resolves(y, found) ==
    /\ symbols[y] \in {"unknown", IF found THEN "present" ELSE "absent"}
    /\ symbols' = [symbols EXCEPT ![y] = IF found THEN "present" ELSE "absent"]

\* NumberGenerator::new: look up CreateNumberGenerator (Err when missing, and
\* no wrapper), call it, wrap the id whatever it is.
GenNew(g, found, id) ==
    /\ gen[g].pc = "none"
    /\ Resolves("CreateNumberGenerator", found)
    /\ gen' = [gen EXCEPT
          ![g] = IF found
                 THEN [@ EXCEPT !.pc = "live", !.id = id, !.ret = "Ok"]
                 ELSE [@ EXCEPT !.ret = "Err"]]
    /\ UNCHANGED notGen

\* NumberGenerator::next(&self): look up GetNextNumber, call it with the id,
\* Ok(Some(num)) when it says ok and Ok(None) when not.
GenNext(g, found, ok) ==
    /\ gen[g].pc = "live"
    /\ Resolves("GetNextNumber", found)
    /\ gen' = [gen EXCEPT
          ![g] = IF found
                 THEN [@ EXCEPT !.nexts = Counted(@),
                                !.late = @ \/ gen[g].frees # <<>>,
                                !.ret = IF ok THEN "Some" ELSE "None"]
                 ELSE [@ EXCEPT !.ret = "Err"]]
    /\ UNCHANGED notGen

\* NumberGenerator::stop(&self): look up StopNumberGenerator, call it with
\* the id.
GenStop(g, found) ==
    /\ gen[g].pc = "live"
    /\ Resolves("StopNumberGenerator", found)
    /\ gen' = [gen EXCEPT
          ![g] = IF found
                 THEN [@ EXCEPT !.stops = Counted(@),
                                !.late = @ \/ gen[g].frees # <<>>,
                                !.ret = "Ok"]
                 ELSE [@ EXCEPT !.ret = "Err"]]
    /\ UNCHANGED notGen

free_generator_twice(c, found) ==
    [c EXCEPT !.frees = IF found THEN @ \o <<c.id, c.id>> ELSE @]

\* fn free_generator(&self): call FreeNumberGenerator with the id if the
\* symbol is found, nothing otherwise.
free_generator(c, found) ==
    [c EXCEPT !.frees = IF found THEN Append(@, c.id) ELSE @]

\* Drop for NumberGenerator, run once when the owner lets the wrapper go (no
\* method call borrows it then, and none can after): free_generator.
GenDrop(g, found) ==
    /\ gen[g].pc = "live"
    /\ Resolves("FreeNumberGenerator", found)
    /\ gen' = [gen EXCEPT ![g] = [free_generator(@, found) EXCEPT !.pc = "dropped"]]
    /\ UNCHANGED notGen

GenSteps ==
    \/ \E g \in Generators, found \in BOOLEAN, id \in GenIds : GenNew(g, found, id)
    \/ \E g \in Generators, found \in BOOLEAN, ok \in BOOLEAN : GenNext(g, found, ok)
    \/ \E g \in Generators, found \in BOOLEAN : GenStop(g, found)
    \/ \E g \in Generators, found \in BOOLEAN : GenDrop(g, found)

(***************************************************************************)
(* Properties of the number generator wrapper.                             *)
(***************************************************************************)
\* C11: with FreeNumberGenerator resolvable, a dropped wrapper has had
\* FreeNumberGenerator called once, with its id, whatever next and stop
\* calls were made before; a live wrapper has had it called never; and no
\* GetNextNumber or StopNumberGenerator call with the id followed the free.
C11_FreedOnceAtDrop ==
    \A g \in Generators :
        /\ gen[g].pc = "live" => gen[g].frees = <<>>
        /\ (gen[g].pc = "dropped" /\ symbols["FreeNumberGenerator"] = "present")
              => gen[g].frees = <<gen[g].id>>
        /\ ~gen[g].late

\* One wrapper was dropped and freed after several next calls and several
\* stop calls, another right after its creation.
C11_Witness ==
    /\ \E g \in Generators :
          /\ gen[g].pc = "dropped" /\ gen[g].frees = <<gen[g].id>>
          /\ gen[g].nexts = "many" /\ gen[g].stops = "many"
    /\ \E g \in Generators :
          /\ gen[g].pc = "dropped" /\ gen[g].frees = <<gen[g].id>>
          /\ gen[g].nexts = "zero" /\ gen[g].stops = "zero"

(***************************************************************************)
(* Properties of the tokens and channels of the asynchronous bridges.       *)
(***************************************************************************)
\* C18: as long as the foreign side has not invoked async_trampoline with
\* the token of a call, the call has not resolved, with the fallback or with
\* any value, and cannot: the sender is in the box, the box at the address
\* lent to the foreign side, and nothing else reclaims it (the foreign side
\* having passed no token to the trampoline twice).
C18_NeverInvokedNeverResolves ==
    \A s \in OneShots :
        (oneshot[s].pc # "new" /\ oneshot[s].invoked = 0 /\ OnceEach)
            => /\ oneshot[s].pc # "resolved"
               /\ ~ENABLED Resolve(s)
               /\ oneshot[s].outcome = "pending"
               /\ oneshot[s].value = <<>>
               /\ oneshot[s].token = "loaned"
               /\ boxAt[oneshot[s].ptr] = s

\* A call waits at receiver.await without ever having been called back,
\* while a call made with it has been called back and has resolved.
C18_Witness ==
    /\ OnceEach
    /\ \E s \in OneShots : oneshot[s].pc = "awaiting" /\ oneshot[s].invoked = 0
    /\ \E s \in OneShots : oneshot[s].pc = "resolved" /\ oneshot[s].invoked = 1

\* C16: every session has its own token and channel: a value in the channel
\* or the future of a one-shot call was passed to async_trampoline with that
\* call's token, and a value in the stream of a multi-shot session was
\* passed to async_trampoline_multi with that session's token.
C16_SessionsIsolated ==
    /\ \A s \in OneShots :
          /\ oneshot[s].value # <<>>
                => /\ oneshot[s].invoked >= 1
                   /\ oneshot[s].invoked = 1 => oneshot[s].value[1] = oneshot[s].first
          /\ oneshot[s].outcome = "value"
                => /\ oneshot[s].invoked >= 1
                   /\ oneshot[s].invoked = 1 => oneshot[s].result = oneshot[s].first
    /\ \A s \in Multis :
          \A i \in 1..Len(multi[s].recv \o multi[s].queue) :
              \E k \in 1..multi[s].calls :
                  (multi[s].recv \o multi[s].queue)[i] = MultiValue(s, k)

Init == SyncInit /\ OneInit /\ MultiInit /\ FmtInit /\ GenInit

Next == SyncNext \/ OneNext \/ MultiNext \/ FmtNext \/ GenSteps

Spec == Init /\ [][Next]_vars

\* The synchronous bridge alone.
SyncSpec == Init /\ [][SyncNext]_vars

\* The synchronous bridge with a foreign function that returns: it makes
\* its finitely many callbacks and then returns to call_callback_with.
SyncFair ==
    /\ SyncSpec
    /\ \A t \in Threads : WF_vars(\E r \in ForeignResults(t) : ClearSlot(t, r))

\* The one-shot bridge alone.
OneShotSpec == Init /\ [][OneNext]_vars

\* The multi-shot bridge alone.
MultiSpec == Init /\ [][MultiNext]_vars

\* The string bridge alone.
FormatSpec == Init /\ [][FmtNext]_vars

\* The number generator wrapper alone.
GenSpec == Init /\ [][GenSteps]_vars

\* The one-shot bridge with the scheduling the code has: the foreign function
\* returns, and the runtime polls a future whose channel is ready.
OneShotFair ==
    /\ OneShotSpec
    /\ \A s \in OneShots : WF_vars(AsyncForeignReturn(s)) /\ WF_vars(Resolve(s))

=============================================================================
